---- MODULE Spec2Model ----
(***************************************************************************)
(* A model of llmclient: provider dispatch (Client.newProvider and         *)
(* Client.newStreamProvider), the buffered call Client.Send with the       *)
(* content-extraction ladder, and the streaming call Client.SendStream     *)
(* with the server-sent-event decoder parseSSEStream; the assembly of the  *)
(* wire messages (messagesToMaps); the registries of the catalog and       *)
(* account providers (Register*Provider, new*Provider); and SendStream     *)
(* calls made one after the other on one client.                           *)
(*                                                                         *)
(* Go strings are sequences of tokens.  A token is a record [t, j]: t is   *)
(* the token's text (one character, or a run of characters that no         *)
(* operation of the program splits), and j is the syntax tree of a JSON    *)
(* object when the token is the text of one, NoJSON otherwise.             *)
(***************************************************************************)
EXTENDS Naturals, Sequences, FiniteSets, TLC

VARIABLES
    mode,      \* "send" (Client.Send) or "stream" (Client.SendStream)
    req,       \* the *Request argument (req.isNil: the nil pointer)
    cbNil,     \* SendStream's callback argument is nil
    pc,        \* position of the call: "start", "post", "scan", "done"
    prov,      \* the strategy that dispatch constructed
    sent,      \* the HTTP requests handed to client.Do, in order
    resp,      \* the server's answer: status, body (buffered), lines (stream)
    pos,       \* lines of the response body the scanner has consumed
    calls,     \* the chunks the user's callback has received, in order
    cbErrAt,   \* the invocation on which the user's callback returned an error, 0 if none
    full,      \* SendStream's fullContent builder
    closed,    \* how many times resp.Body.Close has run
    ret,       \* what the call returned, once pc = "done"
    registry,  \* registeredModelsProviders, ...UsageProviders, ...ProfileProviders, ...BalanceProviders
    regLog,    \* the Register*Provider calls made so far, in order
    resolved,  \* the last call of a new*Provider: its request and what it returned
    served     \* what the earlier calls made on this client returned (the error kinds), in order

vars == <<mode, req, cbNil, pc, prov, sent, resp, pos, calls, cbErrAt, full, closed, ret,
          registry, regLog, resolved, served>>

\* the state of one chat call, and the state of the registries
callVars == <<mode, req, cbNil, pc, prov, sent, resp, pos, calls, cbErrAt, full, closed, ret>>

regVars == <<registry, regLog, resolved>>

(***************************************************************************)
(* Bounds of the model.                                                    *)
(***************************************************************************)
MaxLines == 5       \* lines of a streamed body drawn from the common line shapes
MaxRareLines == 2   \* lines of a streamed body drawn from all the line shapes
MaxChoices == 2     \* elements of a "choices" array in a buffered body
MaxBodyTokens == 4  \* tokens of a buffered body that is free text
MaxMessages == 2    \* messages of a request's history
MaxImages == 2      \* images of a request
MaxRegistrations == 2  \* Register*Provider calls of a run
MaxEarlierCalls == 1   \* calls made on a client before the call at hand

(***************************************************************************)
(* Strings.                                                                *)
(***************************************************************************)
NoJSON == [ty |-> "none"]

Txt(c) == [t |-> c, j |-> NoJSON]

Lit(cs) == [i \in 1..Len(cs) |-> Txt(cs[i])]

EmptyStr == << >>

\* unicode.IsSpace, on the tokens of the model
IsSpace(tok) == tok.t \in {" ", "\n"}

RECURSIVE TrimLeft(_)
TrimLeft(s) == IF s # << >> /\ IsSpace(Head(s)) THEN TrimLeft(Tail(s)) ELSE s

RECURSIVE TrimRight(_)
TrimRight(s) ==
    IF s # << >> /\ IsSpace(s[Len(s)]) THEN TrimRight(SubSeq(s, 1, Len(s) - 1)) ELSE s

TrimSpace(s) == TrimRight(TrimLeft(s))

HasPrefix(s, p) == Len(s) >= Len(p) /\ SubSeq(s, 1, Len(p)) = p

TrimPrefix(s, p) == IF HasPrefix(s, p) THEN SubSeq(s, Len(p) + 1, Len(s)) ELSE s

\* the least index in S, Len(s) + 1 if S is empty
FirstIndex(s, S) == IF S = {} THEN Len(s) + 1 ELSE CHOOSE k \in S : \A m \in S : k <= m

\* strings.ToLower: the lower-case form of each token that has upper-case letters
LowerTok(tok) ==
    CASE tok.t = "OLLAMA" -> Txt("ollama")
      [] tok.t = "Pollinations" -> Txt("pollinations")
      [] tok.t = "OpenRouter" -> Txt("openrouter")
      [] tok.t = "HTTPS://" -> Txt("https://")
      [] tok.t = "Api.Example.com/V1" -> Txt("api.example.com/v1")
      [] tok.t = "Custom" -> Txt("custom")
      [] OTHER -> tok

ToLower(s) == [i \in 1..Len(s) |-> LowerTok(s[i])]

(***************************************************************************)
(* JSON.  A JSON object is the record of the members the program's structs *)
(* name; every other member is ignored by encoding/json.  A member value   *)
(* is [ty, s]: ty is its JSON type ("absent" when the object has no such   *)
(* member) and s its text when it is a string.                             *)
(***************************************************************************)
JAbsent == [ty |-> "absent", s |-> EmptyStr]
JNull == [ty |-> "null", s |-> EmptyStr]
JNum == [ty |-> "num", s |-> EmptyStr]
JStr(s) == [ty |-> "str", s |-> s]

\* a nested object with one string member "content" (message, delta)
JInner(ty, content) == [ty |-> ty, content |-> content]

JInnerAbsent == JInner("absent", JAbsent)

\* one element of "choices"
JChoice(message, content, text, delta) ==
    [ty |-> "obj", message |-> message, content |-> content, text |-> text, delta |-> delta]

JArr(elems) == [ty |-> "arr", elems |-> elems]

JArrAbsent == [ty |-> "absent", elems |-> << >>]

JArrWrongType == [ty |-> "str", elems |-> << >>]

JObject(error, choices, content, text, output) ==
    [ty |-> "object", error |-> error, choices |-> choices,
     content |-> content, text |-> text, output |-> output]

\* the token that is the text of JSON object o
ObjTok(o) == [t |-> "{...}", j |-> o]

\* json.Unmarshal's syntax check: the text is one JSON object, white space around it allowed
IsJSONObjectText(s) == LET u == TrimSpace(s) IN Len(u) = 1 /\ u[1].j # NoJSON

JSONOf(s) == TrimSpace(s)[1].j

\* decoding a member into a Go string field: absent and null leave the zero value
StringFieldOK(v) == v.ty \in {"absent", "null", "str"}

StringField(v) == IF v.ty = "str" THEN v.s ELSE EmptyStr

\* decoding a member into a nested struct with a string field Content
InnerFieldOK(v) ==
    v.ty \in {"absent", "null"} \/ (v.ty = "obj" /\ StringFieldOK(v.content))

InnerField(v) == IF v.ty = "obj" THEN StringField(v.content) ELSE EmptyStr

(***************************************************************************)
(* The streaming decoder.                                                  *)
(***************************************************************************)
\* json.Unmarshal into StreamResp: a syntax error or a member of the wrong type is an error
StreamRespOK(data) ==
    /\ IsJSONObjectText(data)
    /\ LET o == JSONOf(data) IN
        /\ o.choices.ty \in {"absent", "null", "arr"}
        /\ \A i \in 1..Len(o.choices.elems) :
              /\ o.choices.elems[i].ty = "obj"
              /\ InnerFieldOK(o.choices.elems[i].delta)

\* StreamResp.Choices[i].Delta.Content, for each element
StreamRespChoices(data) ==
    LET o == JSONOf(data) IN
    [i \in 1..Len(o.choices.elems) |-> InnerField(o.choices.elems[i].delta)]

\* extractStreamContent that hands back the payload itself when it does not decode
extractStreamContentRaw(data) ==
    IF ~StreamRespOK(data) THEN [err |-> FALSE, content |-> data]
    ELSE LET cs == StreamRespChoices(data) IN
         IF Len(cs) > 0 THEN [err |-> FALSE, content |-> cs[1]]
         ELSE [err |-> FALSE, content |-> EmptyStr]

extractStreamContent(data) ==
    IF ~StreamRespOK(data) THEN [err |-> TRUE, content |-> EmptyStr]
    ELSE LET cs == StreamRespChoices(data) IN
         IF Len(cs) > 0 THEN [err |-> FALSE, content |-> cs[1]]
         ELSE [err |-> FALSE, content |-> EmptyStr]

DataPrefix == Lit(<<"data:", " ">>)

DoneLiteral == Lit(<<"[DONE]">>)

\* LineEvent without the test content != ""
LineEventNoEmptyTest(rawLine) ==
    LET line == TrimSpace(rawLine) IN
    IF line = EmptyStr \/ ~HasPrefix(line, DataPrefix)
    THEN [kind |-> "skip", content |-> EmptyStr]
    ELSE LET data == TrimPrefix(line, DataPrefix) IN
         IF data = DoneLiteral THEN [kind |-> "done", content |-> EmptyStr]
         ELSE LET r == extractStreamContent(data) IN
              IF r.err THEN [kind |-> "skip", content |-> EmptyStr]
              ELSE [kind |-> "chunk", content |-> r.content]

\* What one iteration of parseSSEStream's loop does with a scanned line:
\* "skip" (continue), "done" (the sentinel) or "chunk" (a non-empty fragment).
LineEvent(rawLine) ==
    LET line == TrimSpace(rawLine) IN
    IF line = EmptyStr \/ ~HasPrefix(line, DataPrefix)
    THEN [kind |-> "skip", content |-> EmptyStr]
    ELSE LET data == TrimPrefix(line, DataPrefix) IN
         IF data = DoneLiteral THEN [kind |-> "done", content |-> EmptyStr]
         ELSE LET r == extractStreamContent(data) IN
              IF r.err THEN [kind |-> "skip", content |-> EmptyStr]
              ELSE IF r.content # EmptyStr THEN [kind |-> "chunk", content |-> r.content]
              ELSE [kind |-> "skip", content |-> EmptyStr]

(***************************************************************************)
(* Errors.  k is the kind of the error value, code an HTTP status and msg  *)
(* the text the error carries.                                             *)
(***************************************************************************)
Err(k, code, msg) == [k |-> k, code |-> code, msg |-> msg]

NoErr == Err("nil", 0, EmptyStr)

\* errors.New("request is nil"), errors.New("callback is nil")
RequestNilErr == Err("request is nil", 0, EmptyStr)

CallbackNilErr == Err("callback is nil", 0, EmptyStr)

\* fmt.Errorf("unknown provider: %s", req.Provider)
UnknownProviderErr(name) == Err("unknown provider", 0, name)

\* fmt.Errorf("request: %w", err)
RequestErr == Err("request", 0, EmptyStr)

\* fmt.Errorf("read response: %w", err)
ReadResponseErr == Err("read response", 0, EmptyStr)

\* fmt.Errorf("api error %d: %s", resp.StatusCode, string(respBytes))
APIErr(status, body) == Err("api error", status, body)

\* errors.New("failed to extract content")
ExtractErr == Err("failed to extract content", 0, EmptyStr)

\* errors.New(r.Error)
ProviderReportedErr(msg) == Err("provider", 0, msg)

\* the error value the body reader gives the scanner (scanner.Err())
ScannerErr == Err("scanner", 0, EmptyStr)

\* the error value the user's callback returns when it fails
CallbackErr == Err("callback", 0, EmptyStr)

(***************************************************************************)
(* Provider dispatch.                                                      *)
(***************************************************************************)
defaultOllamaURL == Lit(<<"http://", "localhost:11434/v1/chat/completions">>)

defaultPollinationsURL == Lit(<<"https://", "gen.pollinations.ai/v1/chat/completions">>)

defaultOpenRouterURL == Lit(<<"https://", "openrouter.ai/api/v1/chat/completions">>)

\* declared outside the files at hand; the values are the README's two modes
pollinationsPaidURL == Lit(<<"https://", "gen.pollinations.ai/v1/chat/completions">>)

pollinationsFreeURL == Lit(<<"https://", "text.pollinations.ai/openai">>)

isURL(s) == HasPrefix(s, Lit(<<"http://">>)) \/ HasPrefix(s, Lit(<<"https://">>))

\* a strategy object; a field its struct does not have is the empty string
Strategy(kind, endpoint, key) == [err |-> NoErr, kind |-> kind, endpoint |-> endpoint, key |-> key]

NoStrategy(err) == [err |-> err, kind |-> "none", endpoint |-> EmptyStr, key |-> EmptyStr]

\* newProvider that leaves ollama's endpoint empty when the request gives none
newProviderNoDefault(r) ==
    LET name == ToLower(TrimSpace(r.Provider)) IN
    CASE name = Lit(<<"ollama">>) -> Strategy("ollama", r.Endpoint, EmptyStr)
      [] name = Lit(<<"pollinations">>) -> Strategy("pollinations", EmptyStr, r.APIKey)
      [] name = Lit(<<"openrouter">>) -> Strategy("openrouter", EmptyStr, r.APIKey)
      [] OTHER ->
            IF isURL(name) THEN Strategy("generic", name, r.APIKey)
            ELSE IF isURL(r.Endpoint) THEN Strategy("generic", r.Endpoint, r.APIKey)
            ELSE NoStrategy(UnknownProviderErr(r.Provider))

\* newProvider that tries the endpoint override before the provider that is a URL
newProviderEndpointFirst(r) ==
    LET name == ToLower(TrimSpace(r.Provider)) IN
    CASE name = Lit(<<"ollama">>) ->
            Strategy("ollama",
                     IF r.Endpoint = EmptyStr THEN defaultOllamaURL ELSE r.Endpoint,
                     EmptyStr)
      [] name = Lit(<<"pollinations">>) -> Strategy("pollinations", EmptyStr, r.APIKey)
      [] name = Lit(<<"openrouter">>) -> Strategy("openrouter", EmptyStr, r.APIKey)
      [] OTHER ->
            IF isURL(r.Endpoint) THEN Strategy("generic", r.Endpoint, r.APIKey)
            ELSE IF isURL(name) THEN Strategy("generic", name, r.APIKey)
            ELSE NoStrategy(UnknownProviderErr(r.Provider))

\* newProvider that lets an endpoint override that is a URL replace a hosted built-in
newProviderOverridingBuiltins(r) ==
    LET name == ToLower(TrimSpace(r.Provider)) IN
    CASE name = Lit(<<"ollama">>) ->
            Strategy("ollama",
                     IF r.Endpoint = EmptyStr THEN defaultOllamaURL ELSE r.Endpoint,
                     EmptyStr)
      [] name = Lit(<<"pollinations">>) ->
            IF isURL(r.Endpoint) THEN Strategy("generic", r.Endpoint, r.APIKey)
            ELSE Strategy("pollinations", EmptyStr, r.APIKey)
      [] name = Lit(<<"openrouter">>) ->
            IF isURL(r.Endpoint) THEN Strategy("generic", r.Endpoint, r.APIKey)
            ELSE Strategy("openrouter", EmptyStr, r.APIKey)
      [] OTHER ->
            IF isURL(name) THEN Strategy("generic", name, r.APIKey)
            ELSE IF isURL(r.Endpoint) THEN Strategy("generic", r.Endpoint, r.APIKey)
            ELSE NoStrategy(UnknownProviderErr(r.Provider))

newProvider(r) ==
    LET name == ToLower(TrimSpace(r.Provider)) IN
    CASE name = Lit(<<"ollama">>) ->
            Strategy("ollama",
                     IF r.Endpoint = EmptyStr THEN defaultOllamaURL ELSE r.Endpoint,
                     EmptyStr)
      [] name = Lit(<<"pollinations">>) -> Strategy("pollinations", EmptyStr, r.APIKey)
      [] name = Lit(<<"openrouter">>) -> Strategy("openrouter", EmptyStr, r.APIKey)
      [] OTHER ->
            IF isURL(name) THEN Strategy("generic", name, r.APIKey)
            ELSE IF isURL(r.Endpoint) THEN Strategy("generic", r.Endpoint, r.APIKey)
            ELSE NoStrategy(UnknownProviderErr(r.Provider))

\* newStreamProvider that names the normalized provider in the unknown-provider error
newStreamProviderNamingNormalized(r) ==
    LET name == ToLower(TrimSpace(r.Provider)) IN
    CASE name = Lit(<<"ollama">>) ->
            Strategy("ollama",
                     IF r.Endpoint = EmptyStr THEN defaultOllamaURL ELSE r.Endpoint,
                     EmptyStr)
      [] name = Lit(<<"pollinations">>) -> Strategy("pollinations", EmptyStr, r.APIKey)
      [] name = Lit(<<"openrouter">>) -> Strategy("openrouter", EmptyStr, r.APIKey)
      [] OTHER ->
            IF isURL(name) THEN Strategy("generic", name, r.APIKey)
            ELSE IF isURL(r.Endpoint) THEN Strategy("generic", r.Endpoint, r.APIKey)
            ELSE NoStrategy(UnknownProviderErr(name))

newStreamProvider(r) ==
    LET name == ToLower(TrimSpace(r.Provider)) IN
    CASE name = Lit(<<"ollama">>) ->
            Strategy("ollama",
                     IF r.Endpoint = EmptyStr THEN defaultOllamaURL ELSE r.Endpoint,
                     EmptyStr)
      [] name = Lit(<<"pollinations">>) -> Strategy("pollinations", EmptyStr, r.APIKey)
      [] name = Lit(<<"openrouter">>) -> Strategy("openrouter", EmptyStr, r.APIKey)
      [] OTHER ->
            IF isURL(name) THEN Strategy("generic", name, r.APIKey)
            ELSE IF isURL(r.Endpoint) THEN Strategy("generic", r.Endpoint, r.APIKey)
            ELSE NoStrategy(UnknownProviderErr(r.Provider))

\* the url and key arguments of postJSON in each strategy's Send
SendURL(p) ==
    CASE p.kind = "ollama" -> p.endpoint
      [] p.kind = "pollinations" -> defaultPollinationsURL
      [] p.kind = "openrouter" -> defaultOpenRouterURL
      [] OTHER -> p.endpoint

SendKey(p) == IF p.kind = "ollama" THEN EmptyStr ELSE p.key

\* the url and key arguments of postJSONStream in each strategy's SendStream
SendStreamURL(p) ==
    CASE p.kind = "ollama" -> p.endpoint
      [] p.kind = "pollinations" ->
            IF p.key = EmptyStr THEN pollinationsFreeURL ELSE pollinationsPaidURL
      [] p.kind = "openrouter" -> defaultOpenRouterURL
      [] OTHER -> p.endpoint

SendStreamKey(p) == IF p.kind = "ollama" THEN EmptyStr ELSE p.key

(***************************************************************************)
(* Messages and the assembly of the wire messages.                         *)
(***************************************************************************)
\* Message{Role, Content, ContentParts}; ContentParts is empty (nil) unless the message
\* was built from content parts
Message(role, content, parts) == [Role |-> role, Content |-> content, ContentParts |-> parts]

\* ContentPart: a text part and an image part
NewTextPart(text) == [Type |-> "text", Text |-> text, URL |-> EmptyStr]

NewImageURLPart(url) == [Type |-> "image_url", Text |-> EmptyStr, URL |-> url]

NewUserMessage(text) == Message("user", text, << >>)

NewAssistantMessage(text) == Message("assistant", text, << >>)

NewUserMessageWithImages(text, imageUrls) ==
    Message("user", text,
            <<NewTextPart(text)>> \o
            [i \in 1..Len(imageUrls) |-> NewImageURLPart(imageUrls[i])])

\* Content is the text of the first text part, the empty string when there is none
NewUserMessageWithContentParts(parts) ==
    LET texts == { i \in 1..Len(parts) : parts[i].Type = "text" } IN
    Message("user",
            IF texts = {} THEN EmptyStr ELSE parts[FirstIndex(parts, texts)].Text,
            parts)

\* the value of "content" in a wire message: a string, or a list of parts
StringContent(text) == [ty |-> "string", text |-> text, parts |-> << >>]

PartsContent(parts) == [ty |-> "parts", text |-> EmptyStr, parts |-> parts]

\* {"type": "text", "text": text} and {"type": "image_url", "image_url": {"url": url}}
TextPart(text) == [type |-> "text", text |-> text, url |-> EmptyStr]

ImageURLPart(url) == [type |-> "image_url", text |-> EmptyStr, url |-> url]

\* map[string]interface{}{"role": role, "content": content}
WireMessage(role, content) == [role |-> role, content |-> content]

buildMessageContent(content, images) ==
    IF Len(images) = 0 THEN StringContent(content)
    ELSE PartsContent(<<TextPart(content)>> \o
                      [i \in 1..Len(images) |-> ImageURLPart(images[i])])

\* messagesToMaps that attaches the images to the last message whatever its role
messagesToMapsAnyRole(history, images, systemPrompt) ==
    (IF systemPrompt # EmptyStr
     THEN <<WireMessage("system", StringContent(systemPrompt))>>
     ELSE << >>) \o
    [i \in 1..Len(history) |->
        IF i = Len(history) /\ Len(images) > 0
        THEN WireMessage(history[i].Role, buildMessageContent(history[i].Content, images))
        ELSE WireMessage(history[i].Role, StringContent(history[i].Content))]

\* messagesToMaps that puts the system message after the history
messagesToMapsSystemLast(history, images, systemPrompt) ==
    [i \in 1..Len(history) |->
        IF i = Len(history) /\ history[i].Role = "user" /\ Len(images) > 0
        THEN WireMessage(history[i].Role, buildMessageContent(history[i].Content, images))
        ELSE WireMessage(history[i].Role, StringContent(history[i].Content))] \o
    (IF systemPrompt # EmptyStr
     THEN <<WireMessage("system", StringContent(systemPrompt))>>
     ELSE << >>)

messagesToMaps(history, images, systemPrompt) ==
    (IF systemPrompt # EmptyStr
     THEN <<WireMessage("system", StringContent(systemPrompt))>>
     ELSE << >>) \o
    [i \in 1..Len(history) |->
        IF i = Len(history) /\ history[i].Role = "user" /\ Len(images) > 0
        THEN WireMessage(history[i].Role, buildMessageContent(history[i].Content, images))
        ELSE WireMessage(history[i].Role, StringContent(history[i].Content))]

\* History that lets a non-empty prompt replace the messages
HistoryPromptFirst(r) ==
    IF r.Prompt # EmptyStr THEN <<Message("user", r.Prompt, << >>)>> ELSE r.Messages

\* the history Client.Send hands to provider.Send
History(r) ==
    IF Len(r.Messages) = 0 /\ r.Prompt # EmptyStr
    THEN <<Message("user", r.Prompt, << >>)>>
    ELSE r.Messages

\* the history Client.SendStream hands to provider.SendStream
StreamHistory(r) ==
    IF Len(r.Messages) = 0 /\ r.Prompt # EmptyStr
    THEN <<Message("user", r.Prompt, << >>)>>
    ELSE r.Messages

\* the *http.Request that postJSON and postJSONStream build; messages is the value of
\* "messages" in the JSON body
HTTPRequest(url, key, streaming, messages) ==
    [url |-> url,
     messages |-> messages,
     authorization |-> IF key # EmptyStr THEN Lit(<<"Bearer ">>) \o key ELSE EmptyStr,
     accept |-> IF streaming THEN "text/event-stream" ELSE "",
     referer |-> \E i \in 1..Len(url) : url[i].t = "openrouter.ai/api/v1/chat/completions"]

(***************************************************************************)
(* The content-extraction ladder of the buffered path.                     *)
(***************************************************************************)
\* GenericRespOK of a decoder that passes over a member of the wrong type
GenericRespOKLenient(s) == IsJSONObjectText(s)

\* json.Unmarshal into GenericResp returns nil: valid syntax and every named member of its type
GenericRespOK(s) ==
    /\ IsJSONObjectText(s)
    /\ LET o == JSONOf(s) IN
        /\ StringFieldOK(o.error)
        /\ StringFieldOK(o.content)
        /\ StringFieldOK(o.text)
        /\ StringFieldOK(o.output)
        /\ o.choices.ty \in {"absent", "null", "arr"}
        /\ \A i \in 1..Len(o.choices.elems) :
              /\ o.choices.elems[i].ty = "obj"
              /\ InnerFieldOK(o.choices.elems[i].message)
              /\ StringFieldOK(o.choices.elems[i].content)
              /\ StringFieldOK(o.choices.elems[i].text)

\* the decoded GenericResp
GenericResp(s) ==
    LET o == JSONOf(s) IN
    [Error |-> StringField(o.error),
     Content |-> StringField(o.content),
     Text |-> StringField(o.text),
     Output |-> StringField(o.output),
     Choices |-> [i \in 1..Len(o.choices.elems) |->
                    [MessageContent |-> InnerField(o.choices.elems[i].message),
                     Content |-> StringField(o.choices.elems[i].content),
                     Text |-> StringField(o.choices.elems[i].text)]]]

\* the token "<fence>" is the text of three backticks
IsFence(tok) == tok.t = "<fence>"

\* the least index >= i of a fence, and of a token that is not white space
FenceFrom(s, i) == FirstIndex(s, { k \in i..Len(s) : IsFence(s[k]) })

NonSpaceFrom(s, i) == FirstIndex(s, { k \in i..Len(s) : ~IsSpace(s[k]) })

\* FindFence that blanks the two fences of the block instead of cutting the block out
FindFenceBlankingFences(s) ==
    LET open == FenceFrom(s, 1)
        close == FenceFrom(s, open + 1)
    IN  IF open > Len(s) \/ close > Len(s)
        THEN [found |-> FALSE, inner |-> EmptyStr]
        ELSE [found |-> TRUE,
              inner |-> [i \in 1..Len(s) |-> IF IsFence(s[i]) THEN Txt(" ") ELSE s[i]]]

\* The regexp <fence>(?:json)?\s*(.*?)\s*<fence> under flag s, FindStringSubmatch:
\* the leftmost match, the tag and the white space taken greedily, the group lazily.
FindFence(s) ==
    LET open == FenceFrom(s, 1)
        afterTag == IF open + 1 <= Len(s) /\ s[open + 1].t = "json" THEN open + 2 ELSE open + 1
        begin == NonSpaceFrom(s, afterTag)
        close == FenceFrom(s, begin)
    IN  IF open > Len(s) \/ close > Len(s)
        THEN [found |-> FALSE, inner |-> EmptyStr]
        ELSE [found |-> TRUE, inner |-> TrimRight(SubSeq(s, begin, close - 1))]

StartsWithBrace(s) == Len(s) > 0 /\ s[1].t \in {"{...}", "{bad"}

Extracted(text) == [err |-> NoErr, text |-> text]

ExtractFailed(err) == [err |-> err, text |-> EmptyStr]

\* FencedResult that lets the failure of the recursive call stand
FencedResultStrict(inner, innerResult) == innerResult

\* what the ladder returns for a fenced block: the result of the recursive call on its
\* inner text, and the inner text itself when that call failed
FencedResult(inner, innerResult) ==
    IF innerResult.err = NoErr THEN Extracted(innerResult.text) ELSE Extracted(inner)

RECURSIVE extractContentFromPossibleJSON(_)
extractContentFromPossibleJSON(body) ==
    LET s == TrimSpace(body)
        ok == GenericRespOK(s)
        r == GenericResp(s)
        m == FindFence(s)
    IN  IF ok /\ r.Error # EmptyStr THEN ExtractFailed(ProviderReportedErr(r.Error))
        ELSE IF ok /\ Len(r.Choices) > 0 /\ r.Choices[1].MessageContent # EmptyStr
             THEN Extracted(r.Choices[1].MessageContent)
        ELSE IF ok /\ Len(r.Choices) > 0 /\ r.Choices[1].Content # EmptyStr
             THEN Extracted(r.Choices[1].Content)
        ELSE IF ok /\ Len(r.Choices) > 0 /\ r.Choices[1].Text # EmptyStr
             THEN Extracted(r.Choices[1].Text)
        ELSE IF ok /\ r.Content # EmptyStr THEN Extracted(r.Content)
        ELSE IF ok /\ r.Text # EmptyStr THEN Extracted(r.Text)
        ELSE IF ok /\ r.Output # EmptyStr THEN Extracted(r.Output)
        ELSE IF m.found
             THEN FencedResult(m.inner, extractContentFromPossibleJSON(m.inner))
        ELSE IF Len(s) > 0 /\ ~StartsWithBrace(s) THEN Extracted(s)
        ELSE ExtractFailed(ExtractErr)

extractContent(body) == extractContentFromPossibleJSON(body)

\* one of the field tests of the ladder returned, with the error or with a text
FieldTestsReturn(s) ==
    /\ GenericRespOK(s)
    /\ LET r == GenericResp(s) IN
        \/ r.Error # EmptyStr
        \/ /\ Len(r.Choices) > 0
           /\ \/ r.Choices[1].MessageContent # EmptyStr
              \/ r.Choices[1].Content # EmptyStr
              \/ r.Choices[1].Text # EmptyStr
        \/ r.Content # EmptyStr
        \/ r.Text # EmptyStr
        \/ r.Output # EmptyStr

\* the arguments of the nested calls of extractContentFromPossibleJSON on a body, the
\* outermost first; the calls nested deeper than fuel are left out
RECURSIVE LadderInputs(_, _)
LadderInputs(body, fuel) ==
    LET s == TrimSpace(body)
        m == FindFence(s)
    IN  <<body>> \o
        (IF fuel > 0 /\ ~FieldTestsReturn(s) /\ m.found
         THEN LadderInputs(m.inner, fuel - 1)
         ELSE << >>)

(***************************************************************************)
(* The registries of the catalog and account providers.  A Go map is a     *)
(* function whose domain is the set of its keys; a factory is known by its *)
(* name, and the strategy it builds carries that name.                     *)
(***************************************************************************)
\* make(map[string]...)
EmptyMap == [k \in {} |-> ""]

\* m[key] = value
MapSet(m, key, value) == [k \in DOMAIN m \cup {key} |-> IF k = key THEN value ELSE m[k]]

\* the four package variables, as the program starts
EmptyRegistry == [models |-> EmptyMap, usage |-> EmptyMap, profile |-> EmptyMap, balance |-> EmptyMap]

\* RegisterModelsProvider that keeps the first registration of a name
RegisterModelsProviderFirstWins(reg, name, factory) ==
    IF ToLower(name) \in DOMAIN reg.models THEN reg
    ELSE [reg EXCEPT !.models = MapSet(reg.models, ToLower(name), factory)]

RegisterModelsProvider(reg, name, factory) ==
    [reg EXCEPT !.models = MapSet(reg.models, ToLower(name), factory)]

RegisterUsageProvider(reg, name, factory) ==
    [reg EXCEPT !.usage = MapSet(reg.usage, ToLower(name), factory)]

RegisterProfileProvider(reg, name, factory) ==
    [reg EXCEPT !.profile = MapSet(reg.profile, ToLower(name), factory)]

RegisterBalanceProvider(reg, name, factory) ==
    [reg EXCEPT !.balance = MapSet(reg.balance, ToLower(name), factory)]

\* fmt.Errorf("unknown models provider: %s", req.Provider), and the other three
UnknownModelsProviderErr(name) == Err("unknown models provider", 0, name)

UnknownUsageProviderErr(name) == Err("unknown usage provider", 0, name)

UnknownProfileProviderErr(name) == Err("unknown profile provider", 0, name)

UnknownBalanceProviderErr(name) == Err("unknown balance provider", 0, name)

\* what a new*Provider returns: the built-in strategy, the strategy a registered
\* factory built, or (nil, err)
BuiltinStrategy == [err |-> NoErr, kind |-> "pollinations", factory |-> ""]

CustomStrategy(factory) == [err |-> NoErr, kind |-> "custom", factory |-> factory]

NoCatalogStrategy(err) == [err |-> err, kind |-> "none", factory |-> ""]

newModelsProvider(reg, r) ==
    LET name == ToLower(TrimSpace(r.Provider)) IN
    IF name = Lit(<<"pollinations">>) THEN BuiltinStrategy
    ELSE IF name \in DOMAIN reg.models THEN CustomStrategy(reg.models[name])
    ELSE NoCatalogStrategy(UnknownModelsProviderErr(r.Provider))

newUsageProvider(reg, r) ==
    LET name == ToLower(TrimSpace(r.Provider)) IN
    IF name = Lit(<<"pollinations">>) THEN BuiltinStrategy
    ELSE IF name \in DOMAIN reg.usage THEN CustomStrategy(reg.usage[name])
    ELSE NoCatalogStrategy(UnknownUsageProviderErr(r.Provider))

newProfileProvider(reg, r) ==
    LET name == ToLower(TrimSpace(r.Provider)) IN
    IF name = Lit(<<"pollinations">>) THEN BuiltinStrategy
    ELSE IF name \in DOMAIN reg.profile THEN CustomStrategy(reg.profile[name])
    ELSE NoCatalogStrategy(UnknownProfileProviderErr(r.Provider))

newBalanceProvider(reg, r) ==
    LET name == ToLower(TrimSpace(r.Provider)) IN
    IF name = Lit(<<"pollinations">>) THEN BuiltinStrategy
    ELSE IF name \in DOMAIN reg.balance THEN CustomStrategy(reg.balance[name])
    ELSE NoCatalogStrategy(UnknownBalanceProviderErr(r.Provider))

\* one Register*Provider call, and one call of a new*Provider
Registration(kind, name, factory) == [kind |-> kind, name |-> name, factory |-> factory]

CatalogRequest(provider) == [Provider |-> provider]

NoResolution == [kind |-> "none", req |-> CatalogRequest(EmptyStr), result |-> NoCatalogStrategy(NoErr)]

Resolution(kind, r, result) == [kind |-> kind, req |-> r, result |-> result]

\* the registries after the Register*Provider call e
ApplyRegistration(reg, e) ==
    CASE e.kind = "models" -> RegisterModelsProvider(reg, e.name, e.factory)
      [] e.kind = "usage" -> RegisterUsageProvider(reg, e.name, e.factory)
      [] e.kind = "profile" -> RegisterProfileProvider(reg, e.name, e.factory)
      [] e.kind = "balance" -> RegisterBalanceProvider(reg, e.name, e.factory)

\* the registries after the calls of log, made in order from the program's start
RECURSIVE RegistryAfter(_)
RegistryAfter(log) ==
    IF log = << >> THEN EmptyRegistry
    ELSE ApplyRegistration(RegistryAfter(SubSeq(log, 1, Len(log) - 1)), log[Len(log)])

(***************************************************************************)
(* The inputs: requests, streamed bodies, buffered bodies.                 *)
(***************************************************************************)
\* a request with no system prompt, no prompt, no messages and no images
Request(provider, endpoint, key) ==
    [isNil |-> FALSE, Provider |-> provider, Endpoint |-> endpoint, APIKey |-> key,
     SystemPrompt |-> EmptyStr, Prompt |-> EmptyStr, Messages |-> << >>, Images |-> << >>]

NilRequest ==
    [isNil |-> TRUE, Provider |-> EmptyStr, Endpoint |-> EmptyStr, APIKey |-> EmptyStr,
     SystemPrompt |-> EmptyStr, Prompt |-> EmptyStr, Messages |-> << >>, Images |-> << >>]

\* request r with a system prompt, a prompt, a history and a list of images
ChatRequest(r, systemPrompt, prompt, messages, images) ==
    [r EXCEPT !.SystemPrompt = systemPrompt, !.Prompt = prompt,
              !.Messages = messages, !.Images = images]

ProviderNames ==
    { Lit(<<"ollama">>), Lit(<<" ", "OLLAMA", " ">>),
      Lit(<<"pollinations">>), Lit(<<"Pollinations">>),
      Lit(<<"openrouter">>), Lit(<<"OpenRouter", " ">>),
      Lit(<<"https://", "api.example.com/v1">>),
      Lit(<<"https://", "Api.Example.com/V1">>),
      Lit(<<"HTTPS://", "api.example.com/v1">>),
      Lit(<<"http://", "my-server:11434/v1">>),
      Lit(<<"custom">>), Lit(<<" ", "Custom">>), EmptyStr }

Endpoints ==
    { EmptyStr,
      Lit(<<"http://", "my-server:11434/v1">>),
      Lit(<<"https://", "Api.Example.com/V1">>),
      Lit(<<"HTTPS://", "api.example.com/v1">>),
      Lit(<<"not-a-url">>) }

APIKeys == { EmptyStr, Lit(<<"secret">>) }

Requests == { Request(p, e, k) : p \in ProviderNames, e \in Endpoints, k \in APIKeys }

\* the request of the scenarios that vary the response
PlainRequest == Request(Lit(<<"ollama">>), EmptyStr, EmptyStr)

\* the requests that vary the system prompt, the prompt, the history and the images
SystemPrompts == { EmptyStr, Lit(<<"S">>) }

Prompts == { EmptyStr, Lit(<<"P">>) }

ImageURLs == { Lit(<<"https://", "example.com/1.png">>), Lit(<<"data:image/png;base64,AAAA">>) }

HistoryMessages ==
    { NewUserMessage(Lit(<<"u">>)),
      NewAssistantMessage(Lit(<<"a">>)),
      NewUserMessageWithImages(Lit(<<"d">>), <<Lit(<<"https://", "example.com/1.png">>)>>),
      NewUserMessageWithContentParts(<<NewImageURLPart(Lit(<<"data:image/png;base64,AAAA">>)),
                                       NewTextPart(Lit(<<"t">>))>>) }

\* the inputs of the registries: factories, the names registered, the names resolved
Factories == { "f1", "f2" }

RegistryKinds == { "models", "usage", "profile", "balance" }

RegisteredNames ==
    { Lit(<<"custom">>), Lit(<<"Custom">>), Lit(<<" ", "custom">>), Lit(<<"pollinations">>) }

ResolvedNames ==
    { Lit(<<"custom">>), Lit(<<" ", "custom">>), Lit(<<"Custom", " ">>),
      Lit(<<"Pollinations">>), Lit(<<"other">>) }

\* the name custom registered with each of the four Register*Provider functions
CustomEverywhere ==
    << Registration("models", Lit(<<"custom">>), "f1"),
       Registration("usage", Lit(<<"custom">>), "f1"),
       Registration("profile", Lit(<<"custom">>), "f1"),
       Registration("balance", Lit(<<"custom">>), "f1") >>

\* {"choices":[{"delta":{"content": c}}]} and its variants
DeltaChoice(content) == JChoice(JInnerAbsent, JAbsent, JAbsent, JInner("obj", content))

ChoicesObject(elems) == JObject(JAbsent, JArr(elems), JAbsent, JAbsent, JAbsent)

DataLine(payload) == DataPrefix \o payload

LineBlank == EmptyStr
LineComment == Lit(<<": keep-alive">>)
LineDone == DataLine(DoneLiteral)
LineDonePadded == Lit(<<" ">>) \o DataLine(DoneLiteral) \o Lit(<<" ">>)
LineDoneTwoSpaces == DataLine(Lit(<<" ">>) \o DoneLiteral)
LineDoneNoSpace == Lit(<<"data:">>) \o DoneLiteral
LineA == DataLine(<<ObjTok(ChoicesObject(<<DeltaChoice(JStr(Lit(<<"a">>)))>>))>>)
LineBC == DataLine(<<ObjTok(ChoicesObject(<<DeltaChoice(JStr(Lit(<<"b", "c">>)))>>))>>)
LineEmptyDelta == DataLine(<<ObjTok(ChoicesObject(<<DeltaChoice(JStr(EmptyStr))>>))>>)
LineNoChoices == DataLine(<<ObjTok(ChoicesObject(<< >>))>>)
LineSecondChoice ==
    DataLine(<<ObjTok(ChoicesObject(<<DeltaChoice(JAbsent), DeltaChoice(JStr(Lit(<<"z">>)))>>))>>)
LineNumberContent == DataLine(<<ObjTok(ChoicesObject(<<DeltaChoice(JNum)>>))>>)
\* a first choice with a fragment beside a second choice whose delta is a string
LineMistypedSibling ==
    DataLine(<<ObjTok(ChoicesObject(<<DeltaChoice(JStr(Lit(<<"a">>))),
                                      JChoice(JInnerAbsent, JAbsent, JAbsent,
                                              JInner("str", JAbsent))>>))>>)
LineBadJSON == DataLine(Lit(<<"{bad">>))
LineNoPrefix == <<ObjTok(ChoicesObject(<<DeltaChoice(JStr(Lit(<<"a">>)))>>))>>

CommonLines == { LineBlank, LineDone, LineA, LineBC, LineBadJSON }

AllLines ==
    CommonLines \cup
    { LineComment, LineDonePadded, LineDoneTwoSpaces, LineDoneNoSpace, LineEmptyDelta,
      LineNoChoices, LineSecondChoice, LineNumberContent, LineMistypedSibling,
      LineNoPrefix }

SeqsUpTo(S, n) == UNION { [1..k -> S] : k \in 0..n }

Streams(maxLines, maxRareLines) ==
    SeqsUpTo(CommonLines, maxLines) \cup SeqsUpTo(AllLines, maxRareLines)

Response(status, body, lines) == [status |-> status, body |-> body, lines |-> lines]

ErrorBody == Lit(<<"rate", " ", "limited">>)

Statuses == { 101, 200, 204, 299, 300, 404, 500 }

\* {"content":"X"}
PlainBody == <<ObjTok(JObject(JAbsent, JArrAbsent, JStr(Lit(<<"X">>)), JAbsent, JAbsent))>>

PlainStream == <<LineA, LineBC, LineDone>>

PlainResponse == Response(200, PlainBody, PlainStream)

\* a stream that ends without the sentinel
UnterminatedResponse == Response(200, PlainBody, <<LineBC>>)

\* the buffered bodies: JSON objects, bare or wrapped, and free text
ErrorValues == { JAbsent, JNull, JStr(EmptyStr), JStr(Lit(<<"E">>)), JNum }
ContentValues == { JAbsent, JStr(Lit(<<"C">>)), JNum }
TextValues == { JAbsent, JStr(Lit(<<"T">>)) }
OutputValues == { JAbsent, JStr(Lit(<<"O">>)) }
MessageValues == { JInnerAbsent, JInner("obj", JStr(Lit(<<"M">>))) }
ChoiceContentValues == { JAbsent, JStr(Lit(<<"c">>)) }
ChoiceTextValues == { JAbsent, JStr(Lit(<<"t">>)) }

\* the first element of "choices" varies over every shape, the later ones over two
ChoiceElements ==
    { JChoice(m, c, t, JInnerAbsent) :
        m \in MessageValues, c \in ChoiceContentValues, t \in ChoiceTextValues }

LaterChoiceElements ==
    { JChoice(JInnerAbsent, JAbsent, JAbsent, JInnerAbsent),
      JChoice(JInner("obj", JStr(Lit(<<"M2">>))), JStr(Lit(<<"c2">>)), JStr(Lit(<<"t2">>)),
              JInnerAbsent) }

ChoicesArrays(maxChoices) ==
    { << >> } \cup
    { <<first>> \o rest :
        first \in ChoiceElements, rest \in SeqsUpTo(LaterChoiceElements, maxChoices - 1) }

ChoicesValues(maxChoices) ==
    { JArrAbsent, JArrWrongType } \cup { JArr(e) : e \in ChoicesArrays(maxChoices) }

BodyObjects(maxChoices) ==
    { JObject(e, ch, c, t, o) :
        e \in ErrorValues, ch \in ChoicesValues(maxChoices), c \in ContentValues,
        t \in TextValues, o \in OutputValues }

Fence == Lit(<<"<fence>">>)

Bare(o) == <<ObjTok(o)>>
Padded(o) == Lit(<<"\n", " ">>) \o <<ObjTok(o)>> \o Lit(<<"\n">>)
FencedJSON(o) == Fence \o Lit(<<"json", "\n">>) \o <<ObjTok(o)>> \o Lit(<<"\n">>) \o Fence
Quoted(o) == Lit(<<"X", " ">>) \o Fence \o <<ObjTok(o)>> \o Fence \o Lit(<<" ", "X">>)

BodyTokens == { Txt("<fence>"), Txt("json"), Txt(" "), Txt("X"), Txt("{bad") }

Bodies(maxChoices, maxTokens) ==
    { Bare(o) : o \in BodyObjects(maxChoices) }
    \cup UNION { { Padded(o), FencedJSON(o), Quoted(o) } : o \in BodyObjects(0) }
    \cup SeqsUpTo(BodyTokens, maxTokens)

NoReturn == [err |-> NoErr, hasResp |-> FALSE, content |-> EmptyStr]

\* the requests of SpecMessages
MessageRequests(maxMessages, maxImages) ==
    { ChatRequest(PlainRequest, s, p, m, i) :
        s \in SystemPrompts, p \in Prompts,
        m \in SeqsUpTo(HistoryMessages, maxMessages),
        i \in SeqsUpTo(ImageURLs, maxImages) }

\* (nil, err)
Failed(err) == [err |-> err, hasResp |-> FALSE, content |-> EmptyStr]

\* (&Response{Content: content}, nil) and (&StreamResponse{Content: content}, nil)
Returned(content) == [err |-> NoErr, hasResp |-> TRUE, content |-> content]

InitCall ==
    /\ pc = "start"
    /\ prov = NoStrategy(NoErr)
    /\ sent = << >>
    /\ pos = 0
    /\ calls = << >>
    /\ cbErrAt = 0
    /\ full = EmptyStr
    /\ closed = 0
    /\ ret = NoReturn
    /\ served = << >>

\* the registries after the Register*Provider calls of log, and no resolution yet
InitRegistry(log) ==
    /\ regLog = log
    /\ registry = RegistryAfter(log)
    /\ resolved = NoResolution

\* CloseBody of a transport that forgets the body
CloseBodyNever(n) == n

\* defer resp.Body.Close(), as the function returns: the closes of the body, one more
CloseBody(n) == n + 1

(***************************************************************************)
(* Client.Send.                                                            *)
(***************************************************************************)
\* Client.Send up to the call of provider.Send
SendCall ==
    /\ mode = "send"
    /\ pc = "start"
    /\ IF req.isNil
       THEN /\ pc' = "done"
            /\ ret' = Failed(RequestNilErr)
            /\ UNCHANGED prov
       ELSE LET p == newProvider(req) IN
            IF p.err # NoErr
            THEN /\ pc' = "done"
                 /\ ret' = Failed(p.err)
                 /\ UNCHANGED prov
            ELSE /\ pc' = "post"
                 /\ prov' = p
                 /\ UNCHANGED ret
    /\ UNCHANGED <<mode, req, cbNil, sent, resp, pos, calls, cbErrAt, full, closed>>
    /\ UNCHANGED <<regVars, served>>

\* what Client.Send returns for what provider.Send returned
SendResult(r) == IF r.err # NoErr THEN Failed(r.err) ELSE Returned(r.text)

\* provider.Send: postJSON, then extractContent, and Client.Send's return
PostJSON ==
    /\ mode = "send"
    /\ pc = "post"
    /\ sent' = Append(sent, HTTPRequest(SendURL(prov), SendKey(prov), FALSE,
                                        messagesToMaps(History(req), req.Images,
                                                       req.SystemPrompt)))
    /\ pc' = "done"
    /\ \E net \in {"no response", "read error", "ok"} :
          CASE net = "no response" ->
                  /\ ret' = Failed(RequestErr)
                  /\ UNCHANGED closed
            [] net = "read error" ->
                  /\ ret' = Failed(ReadResponseErr)
                  /\ closed' = CloseBody(closed)
            [] OTHER ->
                  /\ closed' = CloseBody(closed)
                  /\ ret' = IF resp.status >= 300
                            THEN Failed(APIErr(resp.status, resp.body))
                            ELSE SendResult(extractContent(resp.body))
    /\ UNCHANGED <<mode, req, cbNil, prov, resp, pos, calls, cbErrAt, full>>
    /\ UNCHANGED <<regVars, served>>

(***************************************************************************)
(* Client.SendStream.                                                      *)
(***************************************************************************)
\* Client.SendStream up to the call of provider.SendStream
SendStreamCall ==
    /\ mode = "stream"
    /\ pc = "start"
    /\ IF req.isNil
       THEN /\ pc' = "done"
            /\ ret' = Failed(RequestNilErr)
            /\ UNCHANGED prov
       ELSE IF cbNil
       THEN /\ pc' = "done"
            /\ ret' = Failed(CallbackNilErr)
            /\ UNCHANGED prov
       ELSE LET p == newStreamProvider(req) IN
            IF p.err # NoErr
            THEN /\ pc' = "done"
                 /\ ret' = Failed(p.err)
                 /\ UNCHANGED prov
            ELSE /\ pc' = "post"
                 /\ prov' = p
                 /\ UNCHANGED ret
    /\ UNCHANGED <<mode, req, cbNil, sent, resp, pos, calls, cbErrAt, full, closed>>
    /\ UNCHANGED <<regVars, served>>

\* provider.SendStream and postJSONStream up to the call of parseSSEStream
PostJSONStream ==
    /\ mode = "stream"
    /\ pc = "post"
    /\ sent' = Append(sent, HTTPRequest(SendStreamURL(prov), SendStreamKey(prov), TRUE,
                                        messagesToMaps(StreamHistory(req), req.Images,
                                                       req.SystemPrompt)))
    /\ \E net \in {"no response", "ok"} :
          IF net = "no response"
          THEN /\ pc' = "done"
               /\ ret' = Failed(RequestErr)
               /\ UNCHANGED closed
          ELSE IF resp.status >= 300
          THEN /\ pc' = "done"
               /\ ret' = Failed(APIErr(resp.status, resp.body))
               /\ closed' = CloseBody(closed)
          ELSE /\ pc' = "scan"
               /\ UNCHANGED <<ret, closed>>
    /\ UNCHANGED <<mode, req, cbNil, prov, resp, pos, calls, cbErrAt, full>>
    /\ UNCHANGED <<regVars, served>>

\* the chunks parseSSEStream builds
ContentChunk(content) == [Content |-> content, Done |-> FALSE]

\* the terminal chunk built with the sentinel's payload in it
DoneChunkWithPayload == [Content |-> DoneLiteral, Done |-> TRUE]

DoneChunk == [Content |-> EmptyStr, Done |-> TRUE]

\* Accumulate that keeps the last chunk instead of appending it
AccumulateLast(builder, chunk) == IF ~chunk.Done THEN chunk.Content ELSE builder

\* the closure SendStream passes down: the builder after a chunk
Accumulate(builder, chunk) == IF ~chunk.Done THEN builder \o chunk.Content ELSE builder

\* AfterContentChunk that drops the callback's error
AfterContentChunkIgnoringErr(cbFailed) == "scan"

\* parseSSEStream after the callback returned for a content chunk: return err, or go on
AfterContentChunk(cbFailed) == IF cbFailed THEN "done" ELSE "scan"

\* AfterDoneChunk without the break
AfterDoneChunkNoBreak(cbFailed) == IF cbFailed THEN "done" ELSE "scan"

\* parseSSEStream after the callback returned for the sentinel: return err, or break
AfterDoneChunk(cbFailed) == "done"

\* SendStreamResult that hands back the text aggregated so far beside the error
SendStreamResultPartial(err, builder) == [err |-> err, hasResp |-> TRUE, content |-> builder]

\* what SendStream returns when provider.SendStream returned err (NoErr: nil)
SendStreamResult(err, builder) == IF err # NoErr THEN Failed(err) ELSE Returned(builder)

\* one iteration of parseSSEStream's loop: scanner.Scan() returned true
ScanStep ==
    /\ mode = "stream"
    /\ pc = "scan"
    /\ pos < Len(resp.lines)
    /\ pos' = pos + 1
    /\ LET ev == LineEvent(resp.lines[pos + 1]) IN
       IF ev.kind = "skip"
       THEN UNCHANGED <<pc, calls, cbErrAt, full, closed, ret>>
       ELSE \E cbFailed \in BOOLEAN :
            LET chunk == IF ev.kind = "done" THEN DoneChunk ELSE ContentChunk(ev.content)
                next == IF ev.kind = "done" THEN AfterDoneChunk(cbFailed)
                        ELSE AfterContentChunk(cbFailed)
                builder == Accumulate(full, chunk)
            IN  /\ calls' = Append(calls, chunk)
                /\ full' = builder
                /\ cbErrAt' = IF cbFailed THEN Len(calls) + 1 ELSE cbErrAt
                /\ pc' = next
                /\ IF next = "done"
                   THEN /\ closed' = CloseBody(closed)
                        /\ ret' = SendStreamResult(IF cbFailed THEN CallbackErr ELSE NoErr,
                                                   builder)
                   ELSE UNCHANGED <<closed, ret>>
    /\ UNCHANGED <<mode, req, cbNil, prov, sent, resp>>
    /\ UNCHANGED <<regVars, served>>

\* AtEndOfBody that closes a body read to its end with a terminal chunk
AtEndOfBodyTerminal(readFailed) == IF readFailed THEN << >> ELSE <<DoneChunk>>

\* the chunks parseSSEStream hands to the callback after its loop, on the way to
\* return scanner.Err(): none
AtEndOfBody(readFailed) == << >>

\* scanner.Scan() returned false: the end of the body, or a read error
ScanEnd ==
    /\ mode = "stream"
    /\ pc = "scan"
    /\ pos = Len(resp.lines)
    /\ pc' = "done"
    /\ closed' = CloseBody(closed)
    /\ \E readFailed \in BOOLEAN :
          /\ calls' = calls \o AtEndOfBody(readFailed)
          /\ ret' = SendStreamResult(IF readFailed THEN ScannerErr ELSE NoErr, full)
    /\ UNCHANGED <<mode, req, cbNil, prov, sent, resp, pos, cbErrAt, full>>
    /\ UNCHANGED <<regVars, served>>

\* the responses of the calls made one after the other on one client
ReuseResponses ==
    { PlainResponse, UnterminatedResponse, Response(500, ErrorBody, PlainStream),
      Response(200, EmptyStr, <<LineBadJSON, LineA, LineDone, LineBC>>) }

\* the caller calls SendStream again on the same client once a call has returned; the
\* client holds nothing of the call that returned but its *http.Client
SendStreamAgain ==
    /\ mode = "stream"
    /\ pc = "done"
    /\ Len(served) < MaxEarlierCalls
    /\ served' = Append(served, ret.err.k)
    /\ resp' \in ReuseResponses
    /\ pc' = "start"
    /\ prov' = NoStrategy(NoErr)
    /\ sent' = << >>
    /\ pos' = 0
    /\ calls' = << >>
    /\ cbErrAt' = 0
    /\ full' = EmptyStr
    /\ closed' = 0
    /\ ret' = NoReturn
    /\ UNCHANGED <<mode, req, cbNil>>
    /\ UNCHANGED regVars

(***************************************************************************)
(* Registration and resolution of the catalog and account providers.  A    *)
(* run is the registrations of the program's initialization followed by    *)
(* one resolution.                                                         *)
(***************************************************************************)
CallRegisterModelsProvider ==
    /\ Len(regLog) < MaxRegistrations
    /\ resolved = NoResolution
    /\ \E name \in RegisteredNames, factory \in Factories :
          /\ registry' = RegisterModelsProvider(registry, name, factory)
          /\ regLog' = Append(regLog, Registration("models", name, factory))
    /\ UNCHANGED resolved
    /\ UNCHANGED <<callVars, served>>

CallRegisterUsageProvider ==
    /\ Len(regLog) < MaxRegistrations
    /\ resolved = NoResolution
    /\ \E name \in RegisteredNames, factory \in Factories :
          /\ registry' = RegisterUsageProvider(registry, name, factory)
          /\ regLog' = Append(regLog, Registration("usage", name, factory))
    /\ UNCHANGED resolved
    /\ UNCHANGED <<callVars, served>>

CallRegisterProfileProvider ==
    /\ Len(regLog) < MaxRegistrations
    /\ resolved = NoResolution
    /\ \E name \in RegisteredNames, factory \in Factories :
          /\ registry' = RegisterProfileProvider(registry, name, factory)
          /\ regLog' = Append(regLog, Registration("profile", name, factory))
    /\ UNCHANGED resolved
    /\ UNCHANGED <<callVars, served>>

CallRegisterBalanceProvider ==
    /\ Len(regLog) < MaxRegistrations
    /\ resolved = NoResolution
    /\ \E name \in RegisteredNames, factory \in Factories :
          /\ registry' = RegisterBalanceProvider(registry, name, factory)
          /\ regLog' = Append(regLog, Registration("balance", name, factory))
    /\ UNCHANGED resolved
    /\ UNCHANGED <<callVars, served>>

\* Client.ListTextModels up to the return of newModelsProvider, and the other three
CallNewModelsProvider ==
    /\ resolved = NoResolution
    /\ \E n \in ResolvedNames :
          resolved' = Resolution("models", CatalogRequest(n),
                                 newModelsProvider(registry, CatalogRequest(n)))
    /\ UNCHANGED <<registry, regLog>>
    /\ UNCHANGED <<callVars, served>>

CallNewUsageProvider ==
    /\ resolved = NoResolution
    /\ \E n \in ResolvedNames :
          resolved' = Resolution("usage", CatalogRequest(n),
                                 newUsageProvider(registry, CatalogRequest(n)))
    /\ UNCHANGED <<registry, regLog>>
    /\ UNCHANGED <<callVars, served>>

CallNewProfileProvider ==
    /\ resolved = NoResolution
    /\ \E n \in ResolvedNames :
          resolved' = Resolution("profile", CatalogRequest(n),
                                 newProfileProvider(registry, CatalogRequest(n)))
    /\ UNCHANGED <<registry, regLog>>
    /\ UNCHANGED <<callVars, served>>

CallNewBalanceProvider ==
    /\ resolved = NoResolution
    /\ \E n \in ResolvedNames :
          resolved' = Resolution("balance", CatalogRequest(n),
                                 newBalanceProvider(registry, CatalogRequest(n)))
    /\ UNCHANGED <<registry, regLog>>
    /\ UNCHANGED <<callVars, served>>

(***************************************************************************)
(* Specifications.                                                         *)
(***************************************************************************)
\* Spec: every request, through Send and SendStream, against two fixed responses, with
\* the registries empty or holding the name custom
Init ==
    /\ mode \in {"send", "stream"}
    /\ req \in Requests \cup {NilRequest}
    /\ cbNil \in (IF mode = "stream" THEN BOOLEAN ELSE {FALSE})
    /\ resp \in {PlainResponse, UnterminatedResponse}
    /\ InitCall
    /\ \E log \in {<< >>, CustomEverywhere} : InitRegistry(log)

Next == SendCall \/ PostJSON \/ SendStreamCall \/ PostJSONStream \/ ScanStep \/ ScanEnd

Spec == Init /\ [][Next]_vars

\* SpecStream: SendStream of one request against every streamed response
StreamResponses(maxLines, maxRareLines) ==
    { Response(200, EmptyStr, lines) : lines \in Streams(maxLines, maxRareLines) } \cup
    { Response(st, ErrorBody, PlainStream) : st \in Statuses }

InitStream ==
    /\ mode = "stream"
    /\ req = PlainRequest
    /\ cbNil = FALSE
    /\ resp \in StreamResponses(MaxLines, MaxRareLines)
    /\ InitCall
    /\ InitRegistry(<< >>)

NextStream == SendStreamCall \/ PostJSONStream \/ ScanStep \/ ScanEnd

SpecStream == InitStream /\ [][NextStream]_vars

\* SpecExtract: Send of one request against every buffered response
BufferedResponses(maxChoices, maxTokens) ==
    { Response(200, b, << >>) : b \in Bodies(maxChoices, maxTokens) } \cup
    { Response(st, ErrorBody, << >>) : st \in Statuses }

InitExtract ==
    /\ mode = "send"
    /\ req = PlainRequest
    /\ cbNil = FALSE
    /\ resp \in BufferedResponses(MaxChoices, MaxBodyTokens)
    /\ InitCall
    /\ InitRegistry(<< >>)

NextExtract == SendCall \/ PostJSON

SpecExtract == InitExtract /\ [][NextExtract]_vars

\* SpecMessages: Send and SendStream of every request that varies the messages
InitMessages ==
    /\ mode \in {"send", "stream"}
    /\ req \in MessageRequests(MaxMessages, MaxImages)
    /\ cbNil = FALSE
    /\ resp \in {PlainResponse, UnterminatedResponse}
    /\ InitCall
    /\ InitRegistry(<< >>)

NextMessages == SendCall \/ PostJSON \/ SendStreamCall \/ PostJSONStream \/ ScanStep \/ ScanEnd

SpecMessages == InitMessages /\ [][NextMessages]_vars

\* SpecRegistry: the Register*Provider calls and the resolutions
InitRegistrySpec ==
    /\ mode = "send"
    /\ req = PlainRequest
    /\ cbNil = FALSE
    /\ resp = PlainResponse
    /\ InitCall
    /\ InitRegistry(<< >>)

NextRegistry ==
    \/ CallRegisterModelsProvider
    \/ CallRegisterUsageProvider
    \/ CallRegisterProfileProvider
    \/ CallRegisterBalanceProvider
    \/ CallNewModelsProvider
    \/ CallNewUsageProvider
    \/ CallNewProfileProvider
    \/ CallNewBalanceProvider

SpecRegistry == InitRegistrySpec /\ [][NextRegistry]_vars

\* SpecReuse: SendStream calls made one after the other on one client
InitReuse ==
    /\ mode = "stream"
    /\ req = PlainRequest
    /\ cbNil = FALSE
    /\ resp \in ReuseResponses
    /\ InitCall
    /\ InitRegistry(<< >>)

NextReuse == SendStreamCall \/ PostJSONStream \/ ScanStep \/ ScanEnd \/ SendStreamAgain

SpecReuse == InitReuse /\ [][NextReuse]_vars

(***************************************************************************)
(* The streaming decoder's properties (SpecStream).                        *)
(***************************************************************************)
\* the contents of the chunks delivered with done=false, in order
RECURSIVE ContentCalls(_)
ContentCalls(cs) ==
    IF cs = << >> THEN << >>
    ELSE (IF Head(cs).Done THEN << >> ELSE <<Head(cs).Content>>) \o ContentCalls(Tail(cs))

NumDoneCalls == Cardinality({ i \in 1..Len(calls) : calls[i].Done })

\* a line whose trimmed text is exactly data: [DONE]
IsSentinelLine(l) == TrimSpace(l) = DataPrefix \o DoneLiteral

\* choices[0].delta.content of a data line whose payload decodes, the empty string
\* otherwise: a payload that encoding/json rejects (bad syntax, or a member of the wrong
\* type anywhere in it) is a malformed frame and has no fragment
FragmentOf(l) ==
    LET payload == TrimPrefix(TrimSpace(l), DataPrefix) IN
    IF /\ HasPrefix(TrimSpace(l), DataPrefix)
       /\ StreamRespOK(payload)
       /\ JSONOf(payload).choices.ty = "arr"
       /\ Len(JSONOf(payload).choices.elems) > 0
       /\ JSONOf(payload).choices.elems[1].delta.ty = "obj"
       /\ JSONOf(payload).choices.elems[1].delta.content.ty = "str"
    THEN JSONOf(payload).choices.elems[1].delta.content.s
    ELSE EmptyStr

\* the non-empty fragments of a sequence of lines, in order
RECURSIVE Fragments(_)
Fragments(ls) ==
    IF ls = << >> THEN << >>
    ELSE (IF FragmentOf(Head(ls)) # EmptyStr THEN <<FragmentOf(Head(ls))>> ELSE << >>)
         \o Fragments(Tail(ls))

C2_SentinelStops ==
    \A i \in 1..pos :
        IsSentinelLine(resp.lines[i]) =>
            /\ pos = i
            /\ pc = "done"
            /\ NumDoneCalls = 1
            /\ calls[Len(calls)] = [Content |-> EmptyStr, Done |-> TRUE]

C2_Witness ==
    /\ pc = "done"
    /\ resp.lines = <<LineA, LineDone, LineBC, LineDone>>
    /\ pos = 2
    /\ calls = <<ContentChunk(Lit(<<"a">>)), [Content |-> EmptyStr, Done |-> TRUE]>>
    /\ ret.err = NoErr

\* C3 as stated: a stream decoded without error delivered a terminal chunk exactly
\* once, and that chunk has no content.
C3_TerminalExactlyOnce ==
    (mode = "stream" /\ pc = "done" /\ ret.err = NoErr) =>
        /\ NumDoneCalls = 1
        /\ \A i \in 1..Len(calls) : calls[i].Done => calls[i].Content = EmptyStr

\* C3 amended: a terminal chunk has no content and is the last chunk delivered; a
\* stream decoded without error delivered it exactly once when the sentinel line was
\* read and never when the body ended without it; the chunks are finitely many (at
\* most one for each line).
C3_TerminalAtMostOnce ==
    /\ \A i \in 1..Len(calls) :
          calls[i].Done => (calls[i].Content = EmptyStr /\ i = Len(calls))
    /\ Len(calls) <= Len(resp.lines)
    /\ (mode = "stream" /\ pc = "done" /\ ret.err = NoErr) =>
          NumDoneCalls = (IF \E i \in 1..pos : IsSentinelLine(resp.lines[i]) THEN 1 ELSE 0)

C3_Witness ==
    /\ pc = "done"
    /\ ret.err = NoErr
    /\ ret.hasResp
    /\ resp.lines = <<LineA, LineBC>>
    /\ Len(calls) = 2
    /\ NumDoneCalls = 0

\* the number of lines among the first n that made the decoder invoke the callback
DeliveringLines(n) == Cardinality({ i \in 1..n : LineEvent(resp.lines[i]).kind # "skip" })

\* C4: when the callback has returned an error on its k-th invocation, exactly k
\* invocations have happened, the line read last is the one that caused the k-th, and
\* SendStream has returned that error value itself, with no response.
C4_CallbackErrorStops ==
    cbErrAt # 0 =>
        /\ Len(calls) = cbErrAt
        /\ pc = "done"
        /\ ret = [err |-> CallbackErr, hasResp |-> FALSE, content |-> EmptyStr]
        /\ pos >= 1
        /\ LineEvent(resp.lines[pos]).kind # "skip"
        /\ DeliveringLines(pos) = cbErrAt

C4_Witness ==
    /\ resp.lines = <<LineA, LineBC, LineA, LineBC, LineA>>
    /\ cbErrAt = 1
    /\ calls = <<ContentChunk(Lit(<<"a">>))>>
    /\ pos = 1
    /\ pc = "done"
    /\ ret.err = CallbackErr

\* the concatenation of a sequence of strings
RECURSIVE Concat(_)
Concat(ss) == IF ss = << >> THEN EmptyStr ELSE Head(ss) \o Concat(Tail(ss))

\* C5: when SendStream returns successfully, StreamResponse.Content is the
\* concatenation, in arrival order, of the contents of the non-terminal chunks the
\* callback received.
C5_ContentIsConcatenation ==
    (mode = "stream" /\ pc = "done" /\ ret.err = NoErr) =>
        /\ ret.hasResp
        /\ ret.content = Concat(ContentCalls(calls))

C5_Witness ==
    /\ mode = "stream"
    /\ pc = "done"
    /\ ret.err = NoErr
    /\ resp.lines = <<LineA, LineBC, LineA, LineDone>>
    /\ Len(calls) = 4
    /\ ret.content = Lit(<<"a", "b", "c", "a">>)

(***************************************************************************)
(* The extraction ladder's properties (SpecExtract).                       *)
(***************************************************************************)
\* Send got a 2xx response and read its body: extraction ran on resp.body
ExtractionRan ==
    /\ mode = "send"
    /\ pc = "done"
    /\ resp.status < 300
    /\ ret.err.k \notin {"request", "read response"}

\* C6: a body that is a JSON object with a non-empty top-level error string makes
\* extraction fail with exactly that string, whatever the other members hold.
C6_ErrorFieldWins ==
    (/\ ExtractionRan
     /\ IsJSONObjectText(resp.body)
     /\ JSONOf(resp.body).error.ty = "str"
     /\ JSONOf(resp.body).error.s # EmptyStr)
    => ret = [err |-> ProviderReportedErr(JSONOf(resp.body).error.s),
              hasResp |-> FALSE, content |-> EmptyStr]

\* C7: the buffered path ends either in an error or in a non-empty text, never in a
\* success with an empty text.
C7_ErrorOrUsableText ==
    (mode = "send" /\ pc = "done") =>
        \/ (ret.err # NoErr /\ ~ret.hasResp)
        \/ (ret.err = NoErr /\ ret.hasResp /\ ret.content # EmptyStr)

(***************************************************************************)
(* Dispatch's properties (Spec).                                           *)
(***************************************************************************)
\* the request reached newProvider / newStreamProvider
DispatchRan == pc # "start" /\ ~req.isNil /\ ~(mode = "stream" /\ cbNil)

\* the trimmed, lower-cased provider
ProviderName(r) == ToLower(TrimSpace(r.Provider))

BuiltinNames == { Lit(<<"ollama">>), Lit(<<"pollinations">>), Lit(<<"openrouter">>) }

IsBuiltin(r) == ProviderName(r) \in BuiltinNames

FixedDefaultURL(name) ==
    CASE name = Lit(<<"ollama">>) -> defaultOllamaURL
      [] name = Lit(<<"pollinations">>) -> defaultPollinationsURL
      [] name = Lit(<<"openrouter">>) -> defaultOpenRouterURL

\* C8: a provider field that is an absolute http:// or https:// URL selects the generic
\* strategy, and the endpoint and the URL of the HTTP request are that field verbatim.
C8_URLProviderVerbatim ==
    (DispatchRan /\ isURL(req.Provider)) =>
        /\ prov.kind = "generic"
        /\ prov.endpoint = req.Provider
        /\ \A i \in 1..Len(sent) : sent[i].url = req.Provider

C10_DispatchOrder ==
    DispatchRan =>
        LET name == ProviderName(req) IN
        /\ IsBuiltin(req) => (prov.kind = name[1].t /\ ret.err.k # "unknown provider")
        /\ (~IsBuiltin(req) /\ isURL(name)) =>
              (prov.kind = "generic" /\ prov.endpoint = name)
        /\ (~IsBuiltin(req) /\ ~isURL(name) /\ isURL(req.Endpoint)) =>
              /\ prov.kind = "generic"
              /\ prov.endpoint = req.Endpoint
              /\ \A i \in 1..Len(sent) : sent[i].url = req.Endpoint
        /\ ret.err.k = "unknown provider" =>
              (~IsBuiltin(req) /\ ~isURL(name) /\ ~isURL(req.Endpoint))

C10_Witness ==
    /\ mode = "send"
    /\ req.Provider = Lit(<<"custom">>)
    /\ req.Endpoint = Lit(<<"https://", "Api.Example.com/V1">>)
    /\ pc = "done"
    /\ prov.kind = "generic"
    /\ Len(sent) = 1
    /\ sent[1].url = Lit(<<"https://", "Api.Example.com/V1">>)

(***************************************************************************)
(* Dispatch, configuration errors and the request built (Spec).            *)
(***************************************************************************)
\* some Register*Provider call registered a name whose lower-case form is n
NameRegistered(n) == \E i \in 1..Len(regLog) : ToLower(regLog[i].name) = n

\* no dispatch rule applies to the request: not a built-in, not a URL, no URL override
Unresolvable(r) ==
    ~r.isNil /\ ~IsBuiltin(r) /\ ~isURL(ProviderName(r)) /\ ~isURL(r.Endpoint)

\* C11: when the normalized provider is not a built-in and not a URL, the endpoint
\* override is not a URL, and a strategy has been registered under that lower-cased
\* name, Send and SendStream do not fail with unknown provider.
C11_RegisteredStrategyUsed ==
    (DispatchRan /\ Unresolvable(req) /\ NameRegistered(ProviderName(req)))
        => ret.err.k # "unknown provider"

\* C12: Send with a nil request, SendStream with a nil request or a nil callback, and
\* a request whose provider cannot be resolved return an error with no HTTP request
\* issued and no callback invoked; the unknown-provider error names the provider as
\* the caller wrote it.
C12_ConfigErrorsFailFast ==
    (pc # "start" /\ (req.isNil \/ (mode = "stream" /\ cbNil) \/ Unresolvable(req))) =>
        /\ pc = "done"
        /\ sent = << >>
        /\ calls = << >>
        /\ ~ret.hasResp
        /\ ret.err = IF req.isNil THEN Err("request is nil", 0, EmptyStr)
                     ELSE IF mode = "stream" /\ cbNil THEN Err("callback is nil", 0, EmptyStr)
                     ELSE Err("unknown provider", 0, req.Provider)

C12_Witness ==
    /\ mode = "stream"
    /\ ~cbNil
    /\ req.Provider = Lit(<<" ", "Custom">>)
    /\ req.Endpoint = Lit(<<"not-a-url">>)
    /\ pc = "done"
    /\ sent = << >>
    /\ ret.err = Err("unknown provider", 0, Lit(<<" ", "Custom">>))

\* C16: the HTTP request carries Authorization: Bearer <key> if and only if the
\* request has a non-empty API key, whatever the provider and the mode.
C16_BearerIffKey ==
    \A i \in 1..Len(sent) :
        sent[i].authorization =
            IF req.APIKey # EmptyStr THEN Lit(<<"Bearer ">>) \o req.APIKey ELSE EmptyStr

\* C18: for provider pollinations, Send and SendStream both go to the free endpoint
\* when the request has no API key and to the paid endpoint when it has one.
C18_PollinationsByKey ==
    (DispatchRan /\ ProviderName(req) = Lit(<<"pollinations">>)) =>
        \A i \in 1..Len(sent) :
            sent[i].url = IF req.APIKey = EmptyStr
                          THEN Lit(<<"https://", "text.pollinations.ai/openai">>)
                          ELSE Lit(<<"https://", "gen.pollinations.ai/v1/chat/completions">>)

(***************************************************************************)
(* The assembly of the wire messages (SpecMessages).                       *)
(***************************************************************************)
\* the history a request stands for: its messages, or else its prompt as a user message
EffectiveHistory(r) ==
    IF r.Messages # << >> THEN [i \in 1..Len(r.Messages) |->
                                  [Role |-> r.Messages[i].Role, Content |-> r.Messages[i].Content]]
    ELSE IF r.Prompt # EmptyStr THEN <<[Role |-> "user", Content |-> r.Prompt]>>
    ELSE << >>

\* the wire messages without the system message
NonSystemPart(r, w) == IF r.SystemPrompt # EmptyStr /\ w # << >> THEN Tail(w) ELSE w

\* the image parts of a wire message
ImageParts(m) == { k \in 1..Len(m.content.parts) : m.content.parts[k].type = "image_url" }

\* C13: image parts exist if and only if the image list is non-empty and the last
\* history message has role user; they are then in that last message only, whose
\* content is the list of one text part (the original text) followed by one image_url
\* part for each image, in order; every other content is a plain string.
C13_ImagesOnlyOnLastUser ==
    \A i \in 1..Len(sent) :
        LET w == sent[i].messages
            h == EffectiveHistory(req)
            attach == /\ Len(req.Images) > 0
                      /\ h # << >>
                      /\ h[Len(h)].Role = "user"
        IN  \A j \in 1..Len(w) :
                IF attach /\ j = Len(w)
                THEN /\ w[j].role = "user"
                     /\ w[j].content.ty = "parts"
                     /\ Len(w[j].content.parts) = 1 + Len(req.Images)
                     /\ w[j].content.parts[1] =
                           [type |-> "text", text |-> h[Len(h)].Content, url |-> EmptyStr]
                     /\ \A k \in 1..Len(req.Images) :
                           w[j].content.parts[k + 1] =
                              [type |-> "image_url", text |-> EmptyStr, url |-> req.Images[k]]
                ELSE /\ w[j].content.ty = "string"
                     /\ ImageParts(w[j]) = {}

C13_Witness ==
    /\ Len(sent) = 1
    /\ Len(req.Images) = 2
    /\ Len(req.Messages) = 2
    /\ req.Messages[1].Role = "assistant"
    /\ req.Messages[2] = NewUserMessage(Lit(<<"u">>))
    /\ req.SystemPrompt # EmptyStr
    /\ Len(sent[1].messages) = 3
    /\ sent[1].messages[2].content.ty = "string"
    /\ Len(sent[1].messages[3].content.parts) = 3

\* the text a wire message carries: its string, or the text of its text part
WireText(m) == IF m.content.ty = "string" THEN m.content.text ELSE m.content.parts[1].text

\* C14: in Send and in SendStream alike, the wire messages are the system message (if
\* and only if the system prompt is non-empty) followed by the request's messages as
\* they are when there are any (the prompt is ignored), by one user message carrying
\* the prompt when there are none and the prompt is non-empty, and by nothing otherwise.
C14_PromptOrMessages ==
    \A i \in 1..Len(sent) :
        LET w == sent[i].messages
            body == NonSystemPart(req, w)
        IN  /\ Len(w) = Len(body) + (IF req.SystemPrompt # EmptyStr THEN 1 ELSE 0)
            /\ req.SystemPrompt # EmptyStr =>
                  w[1] = [role |-> "system",
                          content |-> [ty |-> "string", text |-> req.SystemPrompt,
                                       parts |-> << >>]]
            /\ Len(req.Messages) > 0 =>
                  /\ Len(body) = Len(req.Messages)
                  /\ \A j \in 1..Len(body) :
                        /\ body[j].role = req.Messages[j].Role
                        /\ WireText(body[j]) = req.Messages[j].Content
            /\ (Len(req.Messages) = 0 /\ req.Prompt # EmptyStr) =>
                  /\ Len(body) = 1
                  /\ body[1].role = "user"
                  /\ WireText(body[1]) = req.Prompt
            /\ (Len(req.Messages) = 0 /\ req.Prompt = EmptyStr) => body = << >>

C14_Witness ==
    /\ mode = "stream"
    /\ Len(sent) = 1
    /\ req.Prompt = Lit(<<"P">>)
    /\ req.SystemPrompt = Lit(<<"S">>)
    /\ req.Messages = <<NewAssistantMessage(Lit(<<"a">>)), NewUserMessage(Lit(<<"u">>))>>
    /\ Len(sent[1].messages) = 3
    /\ sent[1].messages[3].content.text = Lit(<<"u">>)

\* the wire form of a content part
WirePartOf(part) ==
    IF part.Type = "text" THEN [type |-> "text", text |-> part.Text, url |-> EmptyStr]
    ELSE [type |-> "image_url", text |-> EmptyStr, url |-> part.URL]

\* C15: a message that carries content parts is sent with those parts as its content.
C15_ContentPartsSent ==
    \A i \in 1..Len(sent) :
        LET body == NonSystemPart(req, sent[i].messages) IN
        \A j \in 1..Len(req.Messages) :
            req.Messages[j].ContentParts # << >> =>
                /\ j <= Len(body)
                /\ body[j].content.ty = "parts"
                /\ body[j].content.parts =
                      [k \in 1..Len(req.Messages[j].ContentParts) |->
                          WirePartOf(req.Messages[j].ContentParts[k])]

(***************************************************************************)
(* The status of the response, and the lines that are skipped (SpecStream).*)
(***************************************************************************)
\* client.Do returned a response and its body was read
ResponseReceived ==
    /\ pc \in {"scan", "done"}
    /\ Len(sent) = 1
    /\ ret.err.k \notin {"request", "read response"}

\* C17: a response whose status is not in 200..299 makes the call fail with an error
\* that carries the status code and the raw body, with no callback invoked and no
\* extraction attempted.
C17_Non2xxFails ==
    (ResponseReceived /\ resp.status \notin 200..299) =>
        /\ pc = "done"
        /\ calls = << >>
        /\ ret = [err |-> Err("api error", resp.status, resp.body),
                  hasResp |-> FALSE, content |-> EmptyStr]

\* a line that is to be skipped: blank, without the data prefix, or a data line other
\* than the sentinel whose payload is not valid JSON or has no choices[0].delta.content
SkippedLine(l) ==
    \/ TrimSpace(l) = EmptyStr
    \/ ~HasPrefix(TrimSpace(l), DataPrefix)
    \/ (~IsSentinelLine(l) /\ FragmentOf(l) = EmptyStr)

\* C20: a skipped line produces no callback invocation and no error: the invocations
\* are as many as the lines read that are not skipped, and a call fails only because
\* the request failed, the status was an error, the callback returned an error or the
\* body could not be read.
C20_MalformedLinesSkipped ==
    /\ Len(calls) = Cardinality({ i \in 1..pos : ~SkippedLine(resp.lines[i]) })
    /\ ret.err.k \in {"nil", "request", "api error", "callback", "scanner"}
    /\ ret.err.k = "callback" => cbErrAt # 0

C20_Witness ==
    /\ pc = "done"
    /\ resp.lines = <<LineBadJSON, LineA>>
    /\ pos = 2
    /\ calls = <<ContentChunk(Lit(<<"a">>))>>
    /\ ret = [err |-> NoErr, hasResp |-> TRUE, content |-> Lit(<<"a">>)]

(***************************************************************************)
(* The registries' properties (SpecRegistry).                              *)
(***************************************************************************)
\* the Register*Provider calls for registry kind under the key, in the order made
RegistrationsOf(kind, key) ==
    { i \in 1..Len(regLog) : regLog[i].kind = kind /\ ToLower(regLog[i].name) = key }

\* the last of them, 0 when there is none
LastRegistration(kind, key) ==
    IF RegistrationsOf(kind, key) = {} THEN 0
    ELSE CHOOSE i \in RegistrationsOf(kind, key) : \A m \in RegistrationsOf(kind, key) : m <= i

\* each registry holds, for each lower-cased name registered, the factory registered
\* last under it, and nothing else
RegistryMatchesLog ==
    \A kind \in RegistryKinds :
        /\ DOMAIN registry[kind] =
              { ToLower(regLog[i].name) : i \in { k \in 1..Len(regLog) : regLog[k].kind = kind } }
        /\ \A key \in DOMAIN registry[kind] :
              registry[kind][key] = regLog[LastRegistration(kind, key)].factory

\* C19 as stated: resolving the name n gives the strategy built by the constructor
\* registered last under lower-case(n).
C19_ResolvesLastRegistered ==
    /\ RegistryMatchesLog
    /\ resolved # NoResolution =>
          LET last == LastRegistration(resolved.kind, ToLower(resolved.req.Provider)) IN
          last > 0 =>
              resolved.result =
                  [err |-> NoErr, kind |-> "custom", factory |-> regLog[last].factory]

\* C19 amended: each registry maps each lower-cased name to the constructor registered
\* last under it (a later registration replaces the earlier one, changes no other
\* entry, and nothing is removed); resolving n looks up lower-case(trim(n)): the
\* built-in name gives the built-in strategy whatever is registered under it, another
\* name gives the strategy of the constructor registered last under exactly that key,
\* and the unknown-provider error naming n as written when there is none.
C19_LastRegistrationWins ==
    /\ RegistryMatchesLog
    /\ resolved # NoResolution =>
          LET n == ToLower(TrimSpace(resolved.req.Provider))
              last == LastRegistration(resolved.kind, n)
          IN  resolved.result =
                 IF n = Lit(<<"pollinations">>)
                 THEN [err |-> NoErr, kind |-> "pollinations", factory |-> ""]
                 ELSE IF last > 0
                 THEN [err |-> NoErr, kind |-> "custom", factory |-> regLog[last].factory]
                 ELSE [err |-> Err("unknown " \o resolved.kind \o " provider", 0,
                                   resolved.req.Provider),
                       kind |-> "none", factory |-> ""]

C19_Witness ==
    /\ regLog = <<Registration("usage", Lit(<<"Custom">>), "f1"),
                  Registration("usage", Lit(<<"custom">>), "f2")>>
    /\ resolved.kind = "usage"
    /\ resolved.req.Provider = Lit(<<"Custom", " ">>)
    /\ resolved.result = [err |-> NoErr, kind |-> "custom", factory |-> "f2"]

(***************************************************************************)
(* The ends of a stream (SpecStream).                                      *)
(***************************************************************************)
\* the body has no line whose trimmed text is data: [DONE]
NoSentinel(ls) == \A i \in 1..Len(ls) : ~IsSentinelLine(ls[i])

\* SendStream got a response with a status below 300 whose body has no sentinel, the
\* callback never failed, and the call returned without a read error
EndedWithoutSentinel ==
    /\ mode = "stream"
    /\ pc = "done"
    /\ Len(sent) = 1
    /\ ret.err.k # "request"
    /\ resp.status < 300
    /\ NoSentinel(resp.lines)
    /\ cbErrAt = 0
    /\ ret.err.k # "scanner"

\* C21: as long as no sentinel line has been read the callback has received no chunk
\* with done=true; and when the body ends without a sentinel and without a read error,
\* every line has been read, no terminal chunk was delivered, and SendStream returns
\* without error the concatenation of the fragments of the body.
C21_NoTerminalAtNaturalEnd ==
    /\ NoSentinel(SubSeq(resp.lines, 1, pos)) => NumDoneCalls = 0
    /\ EndedWithoutSentinel =>
          /\ pos = Len(resp.lines)
          /\ \A i \in 1..Len(calls) : ~calls[i].Done
          /\ ret = [err |-> NoErr, hasResp |-> TRUE,
                    content |-> Concat(Fragments(resp.lines))]

C21_Witness ==
    /\ pc = "done"
    /\ resp.lines = <<LineA, LineBadJSON, LineBC>>
    /\ pos = 3
    /\ calls = <<ContentChunk(Lit(<<"a">>)), ContentChunk(Lit(<<"b", "c">>))>>
    /\ ret = [err |-> NoErr, hasResp |-> TRUE, content |-> Lit(<<"a", "b", "c">>)]

\* C22: the chunks handed to the callback are never retracted (each step extends the
\* sequence of invocations or leaves it alone); once the call has failed or returned no
\* callback is invoked; and a call that fails on a read error or on a callback error
\* returns that error with no StreamResponse, the text aggregated so far is not
\* returned, and the invocations made before the failure stand.
C22_PartialStreamFails ==
    [][ /\ Len(calls') >= Len(calls)
        /\ SubSeq(calls', 1, Len(calls)) = calls
        /\ (pc = "done" \/ ret.err # NoErr) => calls' = calls
        /\ ret'.err.k \in {"scanner", "callback"} =>
              /\ pc' = "done"
              /\ ~ret'.hasResp
              /\ ret'.content = EmptyStr
              /\ ret'.err.k = "scanner" => calls' = calls
              /\ ret'.err.k = "callback" => Len(calls') = Len(calls) + 1
      ]_vars

C22_Witness ==
    /\ pc = "done"
    /\ resp.lines = <<LineA, LineBC>>
    /\ calls = <<ContentChunk(Lit(<<"a">>)), ContentChunk(Lit(<<"b", "c">>))>>
    /\ full = Lit(<<"a", "b", "c">>)
    /\ ret = [err |-> ScannerErr, hasResp |-> FALSE, content |-> EmptyStr]

(***************************************************************************)
(* The order of the ladder, the fenced block and the plain text            *)
(* (SpecExtract).                                                          *)
(***************************************************************************)
\* the text at a member of a JSON object: its string, the empty string when the member
\* is absent or is not a string
TextAt(v) == IF v.ty = "str" THEN v.s ELSE EmptyStr

\* the values the ladder looks at, in its priority order: choices[0].message.content,
\* choices[0].content, choices[0].text, content, text, output
Candidates(o) ==
    (IF o.choices.ty = "arr" /\ Len(o.choices.elems) > 0 /\ o.choices.elems[1].ty = "obj"
     THEN << IF o.choices.elems[1].message.ty = "obj"
             THEN TextAt(o.choices.elems[1].message.content) ELSE EmptyStr,
             TextAt(o.choices.elems[1].content),
             TextAt(o.choices.elems[1].text) >>
     ELSE << >>) \o
    << TextAt(o.content), TextAt(o.text), TextAt(o.output) >>

\* the first non-empty string of a sequence, the empty string when there is none
FirstNonEmpty(ss) ==
    LET S == { i \in 1..Len(ss) : ss[i] # EmptyStr } IN
    IF S = {} THEN EmptyStr ELSE ss[FirstIndex(ss, S)]

\* the body is a JSON object with no top-level error: the member is absent, null or ""
NoTopLevelError(o) == o.error.ty \in {"absent", "null"} \/ o.error = JStr(EmptyStr)

\* C23: for a body that is a JSON object without a top-level error in which one of
\* choices[0].message.content, choices[0].content, choices[0].text, content, text,
\* output is a non-empty string, extraction returns the first of them in that order;
\* the elements of choices after the first are not looked at.
C23_PriorityOrder ==
    (/\ ExtractionRan
     /\ IsJSONObjectText(resp.body)
     /\ NoTopLevelError(JSONOf(resp.body))
     /\ FirstNonEmpty(Candidates(JSONOf(resp.body))) # EmptyStr)
    => ret = [err |-> NoErr, hasResp |-> TRUE,
              content |-> FirstNonEmpty(Candidates(JSONOf(resp.body)))]

\* the structured interpretation of a text gives a result: the text decodes into
\* GenericResp and holds a non-empty error or a non-empty field of the ladder
StructuredResult(s) ==
    /\ GenericRespOK(TrimSpace(s))
    /\ \/ TextAt(JSONOf(s).error) # EmptyStr
       \/ FirstNonEmpty(Candidates(JSONOf(s))) # EmptyStr

\* the places of the fences of a text
FencePlaces(s) == { i \in 1..Len(s) : s[i].t = "<fence>" }

\* the inner text of the first fenced block: what stands between the first fence and
\* the next one, without the json tag and without the white space around it
FirstFencedInner(s) ==
    LET open == FirstIndex(s, FencePlaces(s))
        close == FirstIndex(s, FencePlaces(s) \ {open})
        between == SubSeq(s, open + 1, close - 1)
    IN  TrimSpace(IF between # << >> /\ between[1].t = "json" THEN Tail(between) ELSE between)

\* C24: when the structured interpretation of the whole body gives nothing and the body
\* holds a fenced block, extraction succeeds: with the result of the ladder on the
\* inner text of the first block when that succeeds (a field of a JSON object, or the
\* plain text itself), and with the inner text itself when it fails (an inner error
\* member, an inner text that starts with a brace, an empty inner text).
C24_FencedBlock ==
    (/\ ExtractionRan
     /\ ~StructuredResult(resp.body)
     /\ Cardinality(FencePlaces(resp.body)) >= 2)
    => LET inner == FirstFencedInner(resp.body) IN
       ret = [err |-> NoErr, hasResp |-> TRUE,
              content |-> IF StructuredResult(inner) /\ TextAt(JSONOf(inner).error) = EmptyStr
                          THEN FirstNonEmpty(Candidates(JSONOf(inner)))
                          ELSE inner]

C24_Witness ==
    /\ pc = "done"
    /\ resp.body = FencedJSON(JObject(JStr(Lit(<<"E">>)), JArrAbsent, JStr(Lit(<<"C">>)),
                                      JAbsent, JAbsent))
    /\ ret = [err |-> NoErr, hasResp |-> TRUE,
              content |-> Bare(JObject(JStr(Lit(<<"E">>)), JArrAbsent, JStr(Lit(<<"C">>)),
                                       JAbsent, JAbsent))]

\* C25: a body with no fenced block and no structured result is returned as it was
\* received, white space included, when it is non-empty and does not start with a
\* brace, and makes extraction fail when it is empty or starts with a brace.
C25_PlainTextVerbatim ==
    (/\ ExtractionRan
     /\ ~StructuredResult(resp.body)
     /\ Cardinality(FencePlaces(resp.body)) < 2)
    => ret = IF resp.body # EmptyStr /\ ~StartsWithBrace(resp.body)
             THEN [err |-> NoErr, hasResp |-> TRUE, content |-> resp.body]
             ELSE [err |-> Err("failed to extract content", 0, EmptyStr),
                   hasResp |-> FALSE, content |-> EmptyStr]

(***************************************************************************)
(* The shape of the wire sequence (SpecMessages).                          *)
(***************************************************************************)
\* C26: the wire sequence has one element for each entry of the history, in the
\* history's order and with the entry's role and text, after one system message that
\* carries the system prompt when the prompt is non-empty: its length is the length
\* of the history plus one, or the length of the history.
C26_WireSequence ==
    \A i \in 1..Len(sent) :
        LET w == sent[i].messages
            h == EffectiveHistory(req)
            off == IF req.SystemPrompt # EmptyStr THEN 1 ELSE 0
        IN  /\ Len(w) = Len(h) + off
            /\ off = 1 => w[1] = [role |-> "system",
                                  content |-> [ty |-> "string", text |-> req.SystemPrompt,
                                               parts |-> << >>]]
            /\ \A j \in 1..Len(h) :
                  /\ off + j <= Len(w)
                  /\ w[off + j].role = h[j].Role
                  /\ WireText(w[off + j]) = h[j].Content

C26_Witness ==
    /\ mode = "send"
    /\ Len(sent) = 1
    /\ req.SystemPrompt = Lit(<<"S">>)
    /\ req.Images = << >>
    /\ req.Messages = <<NewUserMessage(Lit(<<"u">>)), NewAssistantMessage(Lit(<<"a">>))>>
    /\ sent[1].messages =
          << [role |-> "system",
              content |-> [ty |-> "string", text |-> Lit(<<"S">>), parts |-> << >>]],
             [role |-> "user",
              content |-> [ty |-> "string", text |-> Lit(<<"u">>), parts |-> << >>]],
             [role |-> "assistant",
              content |-> [ty |-> "string", text |-> Lit(<<"a">>), parts |-> << >>]] >>

(***************************************************************************)
(* The endpoint override and the built-ins (Spec).                         *)
(***************************************************************************)
\* C27: among the built-ins only ollama takes the request's endpoint override (as it
\* is written); pollinations and openrouter keep their strategy and send the HTTP
\* request to their own fixed URL whatever the override holds.
C27_OverrideOnlyOllama ==
    (DispatchRan /\ IsBuiltin(req)) =>
        /\ prov.kind = ProviderName(req)[1].t
        /\ \A i \in 1..Len(sent) :
              sent[i].url =
                 CASE prov.kind = "ollama" ->
                         IF req.Endpoint = EmptyStr
                         THEN Lit(<<"http://", "localhost:11434/v1/chat/completions">>)
                         ELSE req.Endpoint
                   [] prov.kind = "openrouter" ->
                         Lit(<<"https://", "openrouter.ai/api/v1/chat/completions">>)
                   [] prov.kind = "pollinations" ->
                         IF mode = "stream" /\ req.APIKey = EmptyStr
                         THEN Lit(<<"https://", "text.pollinations.ai/openai">>)
                         ELSE Lit(<<"https://", "gen.pollinations.ai/v1/chat/completions">>)

C27_Witness ==
    /\ mode = "send"
    /\ req.Provider = Lit(<<"OpenRouter", " ">>)
    /\ req.Endpoint = Lit(<<"http://", "my-server:11434/v1">>)
    /\ pc = "done"
    /\ prov.kind = "openrouter"
    /\ Len(sent) = 1
    /\ sent[1].url = Lit(<<"https://", "openrouter.ai/api/v1/chat/completions">>)

(***************************************************************************)
(* Members of the wrong type (SpecExtract).                                *)
(***************************************************************************)
\* a member that should be a string has another type, null among the others or not
NotString(v, others) == v.ty \notin ({"absent", "str"} \cup others)

\* a recognised member of the object has a JSON type other than the expected one; the
\* types of others are let through
MistypedMember(o, others) ==
    \/ NotString(o.error, others)
    \/ NotString(o.content, others)
    \/ NotString(o.text, others)
    \/ NotString(o.output, others)
    \/ o.choices.ty \notin ({"absent", "arr"} \cup others)
    \/ \E i \in 1..Len(o.choices.elems) :
          \/ o.choices.elems[i].ty \notin ({"obj"} \cup others)
          \/ o.choices.elems[i].message.ty \notin ({"absent", "obj"} \cup others)
          \/ NotString(o.choices.elems[i].message.content, others)
          \/ NotString(o.choices.elems[i].content, others)
          \/ NotString(o.choices.elems[i].text, others)

\* the call failed with the generic extraction error
FailedToExtract ==
    ret = [err |-> Err("failed to extract content", 0, EmptyStr),
           hasResp |-> FALSE, content |-> EmptyStr]

\* C28 as stated: a body that is a JSON object in which a recognised member has a type
\* other than the expected one fails with the generic extraction error.
C28_MistypedAbandons ==
    (/\ ExtractionRan
     /\ IsJSONObjectText(resp.body)
     /\ MistypedMember(JSONOf(resp.body), {}))
    => FailedToExtract

\* C28 amended: a body that is a JSON object in which a recognised member has a type
\* other than the expected one and other than null fails with the generic extraction
\* error, whatever its error, choices and content members hold; a member that is null
\* counts as absent, and the object is then interpreted: a non-empty error string is
\* the error, and otherwise the first non-empty field of the ladder is the text.
C28_MistypedNotNullAbandons ==
    (ExtractionRan /\ IsJSONObjectText(resp.body)) =>
        LET o == JSONOf(resp.body) IN
        /\ MistypedMember(o, {"null"}) => FailedToExtract
        /\ (~MistypedMember(o, {"null"}) /\ TextAt(o.error) # EmptyStr) =>
              ret = [err |-> Err("provider", 0, TextAt(o.error)),
                     hasResp |-> FALSE, content |-> EmptyStr]
        /\ (~MistypedMember(o, {"null"}) /\ TextAt(o.error) = EmptyStr
                                         /\ FirstNonEmpty(Candidates(o)) # EmptyStr) =>
              ret = [err |-> NoErr, hasResp |-> TRUE,
                     content |-> FirstNonEmpty(Candidates(o))]

C28_Witness ==
    /\ pc = "done"
    /\ resp.body = Bare(JObject(JNum, JArr(<<JChoice(JInner("obj", JStr(Lit(<<"M">>))),
                                                     JAbsent, JAbsent, JInnerAbsent)>>),
                                JStr(Lit(<<"C">>)), JAbsent, JAbsent))
    /\ FailedToExtract

(***************************************************************************)
(* The ladder terminates (SpecExtract).                                    *)
(***************************************************************************)
\* C30: each nested call of the ladder gets a text strictly shorter than its caller's,
\* the calls are at most as many as the body is long plus one, and the extraction
\* returns a text without an error or an error without a text.
C30_LadderTerminates ==
    ExtractionRan =>
        LET ins == LadderInputs(resp.body, Len(resp.body) + 1) IN
        /\ \A k \in 1..(Len(ins) - 1) : Len(ins[k + 1]) < Len(ins[k])
        /\ Len(ins) <= Len(resp.body) + 1
        /\ \/ (ret.err = NoErr /\ ret.hasResp)
           \/ (ret.err # NoErr /\ ~ret.hasResp /\ ret.content = EmptyStr)

C30_Witness ==
    /\ pc = "done"
    /\ resp.body = Lit(<<"<fence>", "json", "X", "<fence>">>)
    /\ LadderInputs(resp.body, Len(resp.body) + 1) = <<resp.body, Lit(<<"X">>)>>
    /\ ret = [err |-> NoErr, hasResp |-> TRUE, content |-> Lit(<<"X">>)]

(***************************************************************************)
(* The response body and the client (SpecReuse).                           *)
(***************************************************************************)
\* client.Do handed back a response for the call at hand
ResponseObtained ==
    \/ pc = "scan"
    \/ (pc = "done" /\ Len(sent) = 1 /\ ret.err.k # "request")

\* C29: in every SendStream call, the first on a client or one made after calls that
\* failed or were cancelled, the body of the response is closed exactly once by the
\* time the call returns, whichever way it returns, and not at all while the callback
\* can still be invoked or when there was no response; no step hands a chunk to the
\* callback once the body is closed.
C29_BodyClosedOnce ==
    [][ /\ closed' = IF pc' = "done" /\ ResponseObtained' THEN 1 ELSE 0
        /\ closed >= 1 => Len(calls') <= Len(calls)
      ]_vars

C29_Witness ==
    /\ served = <<"callback">>
    /\ pc = "done"
    /\ resp = PlainResponse
    /\ Len(calls) = 3
    /\ closed = 1
    /\ ret = [err |-> NoErr, hasResp |-> TRUE, content |-> Lit(<<"a", "b", "c">>)]

====
